---- MODULE Spec2Model ----
(***************************************************************************)
(* A model of the loaders of HomeRAGProject:                               *)
(*   - HTMLLoader.load / HTMLLoader._crawl_url  (src/loaders/html_loader)  *)
(*   - Document.__post_init__                   (src/models/document)      *)
(*   - extract_metadata                         (base_loader, html_loader) *)
(*   - get_loader / register_loader             (src/loaders/__init__)     *)
(* The recursion of _crawl_url is an explicit stack of frames; the web is  *)
(* an environment: a site (who links to whom), page texts that are         *)
(* discovered when a page is first fetched, and fetches that may fail.     *)
(***************************************************************************)
EXTENDS Integers, Sequences, FiniteSets, TLC

VARIABLES
    config,        \* HTMLLoader.config (CrawlerConfig)
    visited_urls,  \* HTMLLoader.visited_urls
    documents,     \* the list `documents` of load, shared by all _crawl_url calls
    base_domain,   \* the local base_domain of load
    stack,         \* the call stack of _crawl_url frames, outermost first
    phase,         \* "idle" | "crawling" | "done": where the caller of load is
    result,        \* what the last load call returned or raised
    loads,         \* number of load calls made on this loader
    start_url,     \* the source_path of the load call in progress / last made
    site,          \* environment: the link structure served by the web
    page_text,     \* environment: the text of each page, once it has been served
    fetched,       \* log of the GET requests of the current load (session.get)
    past_loads,    \* what each finished load without a failed GET gave its caller
    registry,      \* _LOADER_REGISTRY, in insertion order
    reg_log,       \* log of the get_loader / register_loader calls made
    reg_result,    \* what the last get_loader / register_loader call did
    instances,     \* the loader instances get_loader has constructed
    md_call,       \* the extract_metadata call under test
    md_result      \* what it returned or raised

vars == <<config, visited_urls, documents, base_domain, stack, phase, result,
          loads, start_url, site, page_text, fetched, past_loads,
          registry, reg_log, reg_result, instances, md_call, md_result>>

crawlVars == <<config, visited_urls, documents, base_domain, stack, phase,
               result, loads, start_url, site, page_text, fetched, past_loads>>
registryVars == <<registry, reg_log, reg_result, instances>>
metadataVars == <<md_call, md_result>>

(***************************************************************************)
(* Bounds of the model.                                                    *)
(***************************************************************************)
MaxDepthCfg == 2      \* config.max_depth ranges over -1..MaxDepthCfg
MaxLinksCfg == 3      \* config.max_links_per_page ranges over 0..MaxLinksCfg
MaxLoads == 2         \* load calls per loader instance
MaxFailures == 2      \* failing GET requests per load call
MaxEmptyPages == 1    \* pages of the web whose extracted text is empty
MaxRegistryOps == 3   \* get_loader / register_loader calls
MaxExtraKeys == 2     \* keyword arguments passed to extract_metadata

Min(x, y) == IF x <= y THEN x ELSE y
Max(x, y) == IF x >= y THEN x ELSE y

(***************************************************************************)
(* URLs and hrefs.  A URL is what urlparse makes of it: scheme, netloc,    *)
(* path.  An href is absolute, relative to the page, or malformed (urljoin *)
(* raises ValueError, e.g. "http://[x").                                   *)
(***************************************************************************)
Url(sch, host, p) == [scheme |-> sch, netloc |-> host, path |-> p]
NoUrl == Url("", "", "")

Home  == Url("https", "h", "/")
PageA == Url("https", "h", "/a")
PageB == Url("https", "h", "/b")
PageC == Url("https", "h", "/c")
PageD == Url("https", "h", "/d")
PageE == Url("https", "h", "/e")
Plain == Url("http", "h", "/a")      \* same host, other scheme
Other == Url("https", "g", "/")      \* other host
OtherA == Url("https", "g", "/a")
Ftp == Url("ftp", "h", "/")          \* not an http(s) URL

AllUrls == {Home, PageA, PageB, PageC, PageD, PageE, Plain, Other, OtherA, Ftp}
StartUrls == {Home, Other, Ftp}

Abs(u) == [kind |-> "abs", url |-> u]
Rel(p) == [kind |-> "rel", url |-> Url("", "", p)]
BadHref == [kind |-> "bad", url |-> NoUrl]

\* urlparse(u).scheme + "://" + urlparse(u).netloc
DomainOf(u) == <<u.scheme, u.netloc>>

\* source_path.startswith(('http://', 'https://'))
HasHttpPrefix(u) == u.scheme \in {"http", "https"}

\* urljoin(url, href); UrljoinRaises says when it raises instead
UrljoinRaises(href) == href.kind = "bad"
urljoin(base, href) ==
    IF href.kind = "abs" THEN href.url
    ELSE Url(base.scheme, base.netloc, href.url.path)

\* the Python slice seq[:n]
Slice(seq, n) ==
    IF n >= 0 THEN SubSeq(seq, 1, Min(n, Len(seq)))
    ELSE SubSeq(seq, 1, Max(0, Len(seq) + n))

(***************************************************************************)
(* The web.  Each site gives, per page, the <a href> targets of its        *)
(* content root in document order (main_content.find_all('a', href=True)). *)
(***************************************************************************)
Sites == {"diamond", "hub", "cycle", "broken", "mesh"}

find_all_links(st, u) ==
    CASE st = "diamond" ->
            (CASE u = Home  -> <<Rel("/a"), Rel("/b")>>
               [] u = PageA -> <<Abs(Other), Rel("/b")>>
               [] u = PageB -> <<Rel("/c")>>
               [] u = PageC -> <<Rel("/")>>
               [] u = Other -> <<Rel("/a")>>
               [] u = OtherA -> <<Abs(Home)>>
               [] OTHER -> <<>>)
      [] st = "hub" ->
            (CASE u = Home  -> <<Rel("/a"), Rel("/b"), Rel("/c"), Rel("/d"), Rel("/e")>>
               [] u = PageA -> <<Rel("/b")>>
               [] u = PageB -> <<Rel("/")>>
               [] OTHER -> <<>>)
      [] st = "cycle" ->
            (CASE u = Home  -> <<Rel("/"), Rel("/a"), Rel("/a")>>
               [] u = PageA -> <<Rel("/a"), Rel("/"), Rel("/b")>>
               [] u = PageB -> <<Rel("/a")>>
               [] u = Other -> <<Rel("/"), Abs(Home)>>
               [] OTHER -> <<>>)
      [] st = "broken" ->
            (CASE u = Home  -> <<Rel("/a"), BadHref, Rel("/b")>>
               [] u = PageA -> <<Abs(Plain), Rel("/b")>>
               [] u = PageB -> <<BadHref, Rel("/c")>>
               [] u = Other -> <<Abs(Home)>>
               [] OTHER -> <<>>)
      [] st = "mesh" ->
            (CASE u = Home  -> <<Rel("/a"), Rel("/b"), Abs(Other)>>
               [] u = PageA -> <<Rel("/b"), Rel("/c"), Rel("/")>>
               [] u = PageB -> <<Rel("/c"), Rel("/"), Rel("/a")>>
               [] u = PageC -> <<Abs(Plain), Rel("/a"), Rel("/b")>>
               [] u = Other -> <<Abs(PageC), Rel("/a")>>
               [] u = OtherA -> <<Rel("/"), Abs(PageA)>>
               [] OTHER -> <<>>)

\* main_content.get_text(separator='\n', strip=True): a sequence of characters
NoText == <<>>
SomeText == <<"t">>

(***************************************************************************)
(* Document (src/models/document.py) and extract_metadata.                 *)
(***************************************************************************)
\* a variant that lets a keyword named source_path through and merges it
extract_metadata_merging(source_path, kwargs) ==
    [raised |-> "none",
     value |-> [k \in {"source_path"} \cup DOMAIN kwargs |->
                   IF k \in DOMAIN kwargs THEN kwargs[k] ELSE source_path]]

\* Python binds source_path first, then **kwargs: a keyword named source_path
\* is "multiple values for argument 'source_path'", a TypeError.
extract_metadata(source_path, kwargs) ==
    IF "source_path" \in DOMAIN kwargs
    THEN [raised |-> "TypeError", value |-> <<>>]
    ELSE [raised |-> "none",
          value |-> [k \in {"source_path"} \cup DOMAIN kwargs |->
                        IF k \in DOMAIN kwargs THEN kwargs[k] ELSE source_path]]

\* HTMLLoader overrides extract_metadata with the same body
HTMLLoader_extract_metadata(source_path, kwargs) ==
    IF "source_path" \in DOMAIN kwargs
    THEN [raised |-> "TypeError", value |-> <<>>]
    ELSE [raised |-> "none",
          value |-> [k \in {"source_path"} \cup DOMAIN kwargs |->
                        IF k \in DOMAIN kwargs THEN kwargs[k] ELSE source_path]]

\* Document.__post_init__ raises ValueError for an empty field
DocumentRaises(content, source_uri, doc_type) ==
    \/ content = NoText
    \/ source_uri = NoUrl
    \/ doc_type = ""

Document(content, source_uri, doc_type, metadata) ==
    [content |-> content, source_uri |-> source_uri,
     doc_type |-> doc_type, metadata |-> metadata]

\* the keyword arguments of the extract_metadata call of _crawl_url
CrawlKwargs(depth, content) ==
    [k \in {"title", "depth", "content_length"} |->
        CASE k = "title" -> "Untitled"
          [] k = "depth" -> depth
          [] k = "content_length" -> Len(content)]

(***************************************************************************)
(* Frames of _crawl_url.  stage "enter": called, nothing executed yet.     *)
(* stage "loop": inside the for loop over links, idx links taken so far.   *)
(***************************************************************************)
EnterFrame(u, d) == [url |-> u, depth |-> d, stage |-> "enter", links |-> <<>>, idx |-> 0]
LoopFrame(u, d, ls) == [url |-> u, depth |-> d, stage |-> "loop", links |-> ls, idx |-> 0]

Top == stack[Len(stack)]
Pop(st) == SubSeq(st, 1, Len(st) - 1)
Running == phase = "crawling" /\ stack # <<>>

\* the link positions through which the running call was reached
PathOf(st) == [k \in 1..(Len(st) - 1) |-> st[k].idx]

FailuresSoFar == Cardinality({i \in 1..Len(fetched) : ~fetched[i].ok})
EmptyPagesKnown == Cardinality({u \in AllUrls : page_text[u] = "empty"})

\* CrawlerConfig() with the defaults of config.py
DefaultConfig ==
    [stay_in_domain |-> TRUE, max_depth |-> 2,
     follow_links |-> TRUE, max_links_per_page |-> 10]

Configs ==
    [stay_in_domain : BOOLEAN, max_depth : -1..MaxDepthCfg,
     follow_links : BOOLEAN, max_links_per_page : 0..MaxLinksCfg]
    \cup {DefaultConfig}

NoResult == [kind |-> "none", docs |-> <<>>]

(***************************************************************************)
(* The loader registry (src/loaders/__init__.py).  A type tag is a         *)
(* sequence of characters; the registry is a dict, kept in insertion order.*)
(***************************************************************************)
LowerChar(c) ==
    CASE c = "P" -> "p" [] c = "D" -> "d" [] c = "F" -> "f"
      [] c = "O" -> "o" [] c = "C" -> "c"
      [] OTHER -> c

\* str.lower()
lower(str) == [i \in 1..Len(str) |-> LowerChar(str[i])]

TagPdf == <<"p", "d", "f">>
TagCsv == <<"c", "s", "v">>
TagHtml == <<"h", "t", "m", "l">>
TagInputs == {TagPdf, <<"P", "D", "F">>, <<"P", "d", "f">>,
              <<"d", "o", "c">>, <<"D", "o", "c">>}

NoType == "None"
\* the classes that inherit from AbstractDataLoader, and some that do not
LoaderClasses == {"PDFLoader", "CSVLoader", "HTMLLoader", "WordLoader"}
ClassInputs == {"CSVLoader", "WordLoader", "dict"}

\* issubclass(loader_class, AbstractDataLoader)
issubclass(cls) == cls \in LoaderClasses

\* _LOADER_REGISTRY as the module defines it
InitialRegistry ==
    << [tag |-> TagPdf, type |-> "PDFLoader"],
       [tag |-> TagCsv, type |-> "CSVLoader"],
       [tag |-> TagHtml, type |-> "HTMLLoader"] >>

\* _LOADER_REGISTRY.keys(), in order
Keys(reg) == [i \in DOMAIN reg |-> reg[i].tag]
KeySet(reg) == {reg[i].tag : i \in DOMAIN reg}
\* _LOADER_REGISTRY[tag]
Lookup(reg, tag) == reg[CHOOSE i \in DOMAIN reg : reg[i].tag = tag].type
\* _LOADER_REGISTRY[tag] = cls
DictSet(reg, tag, cls) ==
    IF tag \in KeySet(reg)
    THEN [i \in DOMAIN reg |-> IF reg[i].tag = tag
                               THEN [tag |-> tag, type |-> cls] ELSE reg[i]]
    ELSE Append(reg, [tag |-> tag, type |-> cls])

NoRegResult == [kind |-> "none", type |-> NoType, id |-> 0, tags |-> <<>>]

RegistryIdle ==
    /\ registry = InitialRegistry
    /\ reg_log = <<>>
    /\ reg_result = NoRegResult
    /\ instances = <<>>
MetadataIdle ==
    /\ md_call = [loader |-> NoType, source |-> "", kwargs |-> <<>>]
    /\ md_result = [raised |-> "pending", value |-> <<>>]

\* HTMLLoader.__init__
Init ==
    /\ config \in Configs
    /\ visited_urls = {}
    /\ documents = <<>>
    /\ base_domain = <<"", "">>
    /\ stack = <<>>
    /\ phase = "idle"
    /\ result = NoResult
    /\ loads = 0
    /\ start_url = NoUrl
    /\ site \in Sites
    /\ page_text = [u \in AllUrls |-> "unseen"]
    /\ fetched = <<>>
    /\ past_loads = <<>>
    /\ RegistryIdle
    /\ MetadataIdle

(***************************************************************************)
(* HTMLLoader.load                                                         *)
(***************************************************************************)
\* lines 63-64: the prefix check raises before any state is touched
LoadInvalid ==
    /\ phase \in {"idle", "done"}
    /\ loads < MaxLoads
    /\ \E sp \in StartUrls :
        /\ ~HasHttpPrefix(sp)
        /\ start_url' = sp
        /\ result' = [kind |-> "ValueError_invalid_url", docs |-> <<>>]
    /\ phase' = "done"
    /\ loads' = loads + 1
    /\ UNCHANGED <<config, visited_urls, documents, base_domain, stack, site,
                   page_text, fetched, past_loads>>
    /\ UNCHANGED <<registryVars, metadataVars>>

\* a variant without line 67: the set of the previous load is kept
KeptVisited(old) == old
\* what load leaves in visited_urls before crawling (line 67: clear())
ClearedVisited(old) == {}

\* lines 66-74
LoadStart ==
    /\ phase \in {"idle", "done"}
    /\ loads < MaxLoads
    /\ \E sp \in StartUrls :
        /\ HasHttpPrefix(sp)
        /\ start_url' = sp
        /\ base_domain' = DomainOf(sp)
        /\ stack' = <<EnterFrame(sp, 0)>>
    /\ documents' = <<>>
    /\ visited_urls' = ClearedVisited(visited_urls)
    /\ fetched' = <<>>
    /\ result' = NoResult
    /\ phase' = "crawling"
    /\ loads' = loads + 1
    /\ UNCHANGED <<config, site, page_text, past_loads>>
    /\ UNCHANGED <<registryVars, metadataVars>>

\* what the callers of load have seen so far of the calls in which every GET
\* succeeded: the source they passed and what load gave back for it
LoadRecord(res) ==
    IF \A i \in DOMAIN fetched : fetched[i].ok
    THEN Append(past_loads, [source |-> start_url, result |-> res])
    ELSE past_loads

\* a variant without the check of lines 76-77: the empty list is returned
LoadReturnsEmpty ==
    /\ phase = "crawling"
    /\ stack = <<>>
    /\ documents = <<>>
    /\ result' = [kind |-> "returned", docs |-> documents]
    /\ past_loads' = LoadRecord(result')
    /\ phase' = "done"
    /\ UNCHANGED <<config, visited_urls, documents, base_domain, stack, loads,
                   start_url, site, page_text, fetched>>
    /\ UNCHANGED <<registryVars, metadataVars>>

\* lines 76-77
LoadRaiseNoContent ==
    /\ phase = "crawling"
    /\ stack = <<>>
    /\ documents = <<>>
    /\ result' = [kind |-> "ValueError_no_content", docs |-> <<>>]
    /\ past_loads' = LoadRecord(result')
    /\ phase' = "done"
    /\ UNCHANGED <<config, visited_urls, documents, base_domain, stack, loads,
                   start_url, site, page_text, fetched>>
    /\ UNCHANGED <<registryVars, metadataVars>>

\* line 79
LoadReturn ==
    /\ phase = "crawling"
    /\ stack = <<>>
    /\ documents # <<>>
    /\ result' = [kind |-> "returned", docs |-> documents]
    /\ past_loads' = LoadRecord(result')
    /\ phase' = "done"
    /\ UNCHANGED <<config, visited_urls, documents, base_domain, stack, loads,
                   start_url, site, page_text, fetched>>
    /\ UNCHANGED <<registryVars, metadataVars>>

(***************************************************************************)
(* HTMLLoader._crawl_url                                                   *)
(***************************************************************************)
\* line 92
DepthExceeded(depth) == depth > config.max_depth
\* line 96
AlreadyVisited(u) == u \in visited_urls
\* a variant that compares the host and forgets the scheme
OutOfDomainByHost(u) == config.stay_in_domain /\ u.netloc # base_domain[2]
\* lines 100-104
OutOfDomain(u) == config.stay_in_domain /\ DomainOf(u) # base_domain
\* line 153
ShouldFollow(depth) == config.follow_links /\ depth < config.max_depth
\* line 156
LinksToFollow(u) == Slice(find_all_links(site, u), config.max_links_per_page)

Entering == Running /\ Top.stage = "enter"
Looping == Running /\ Top.stage = "loop"
PassesGuards ==
    /\ Entering
    /\ ~DepthExceeded(Top.depth)
    /\ ~AlreadyVisited(Top.url)
    /\ ~OutOfDomain(Top.url)

GetRequest(u, d, ok) == [url |-> u, depth |-> d, ok |-> ok, path |-> PathOf(stack)]

envUnchanged ==
    UNCHANGED <<config, base_domain, phase, result, loads, start_url, site, past_loads>>

\* lines 92-93
CrawlReturnDepth ==
    /\ Entering
    /\ DepthExceeded(Top.depth)
    /\ stack' = Pop(stack)
    /\ UNCHANGED <<visited_urls, documents, page_text, fetched>>
    /\ envUnchanged
    /\ UNCHANGED <<registryVars, metadataVars>>

\* lines 96-97
CrawlReturnVisited ==
    /\ Entering
    /\ ~DepthExceeded(Top.depth)
    /\ AlreadyVisited(Top.url)
    /\ stack' = Pop(stack)
    /\ UNCHANGED <<visited_urls, documents, page_text, fetched>>
    /\ envUnchanged
    /\ UNCHANGED <<registryVars, metadataVars>>

\* lines 100-104
CrawlReturnDomain ==
    /\ Entering
    /\ ~DepthExceeded(Top.depth)
    /\ ~AlreadyVisited(Top.url)
    /\ OutOfDomain(Top.url)
    /\ stack' = Pop(stack)
    /\ UNCHANGED <<visited_urls, documents, page_text, fetched>>
    /\ envUnchanged
    /\ UNCHANGED <<registryVars, metadataVars>>

\* a variant that records the page although its fetch failed
VisitedAlthoughFailed(u) == visited_urls \cup {u}
\* what a failed fetch leaves in visited_urls (nothing is added)
VisitedAfterFailure(u) == visited_urls

\* lines 108-109 raise RequestException; lines 163-164 swallow it
CrawlFetchFail ==
    /\ PassesGuards
    /\ FailuresSoFar < MaxFailures
    /\ fetched' = Append(fetched, GetRequest(Top.url, Top.depth, FALSE))
    /\ visited_urls' = VisitedAfterFailure(Top.url)
    /\ stack' = Pop(stack)
    /\ UNCHANGED <<documents, page_text>>
    /\ envUnchanged
    /\ UNCHANGED <<registryVars, metadataVars>>

\* a variant that never records the page
MarkVisitedForgotten(u) == visited_urls
\* line 134: self.visited_urls.add(url)
MarkVisited(u) == visited_urls \cup {u}

\* a variant that inserts at the front
PrependDocument(docs, doc) == <<doc>> \o docs
\* line 145: documents.append(...)
AppendDocument(docs, doc) == Append(docs, doc)

\* the frame after line 150: the link loop, or the return
AfterDocument(u, depth) ==
    IF ShouldFollow(depth)
    THEN Append(Pop(stack), LoopFrame(u, depth, LinksToFollow(u)))
    ELSE Pop(stack)

\* lines 108-161 for a page whose text is not empty
CrawlFetchOk ==
    /\ PassesGuards
    /\ page_text[Top.url] \in {"unseen", "text"}
    /\ LET u == Top.url
           d == Top.depth
           md == HTMLLoader_extract_metadata(u, CrawlKwargs(d, SomeText))
       IN  /\ page_text' = [page_text EXCEPT ![u] = "text"]
           /\ fetched' = Append(fetched, GetRequest(u, d, TRUE))
           /\ visited_urls' = MarkVisited(u)
           /\ md.raised = "none"
           /\ ~DocumentRaises(SomeText, u, "html")
           /\ documents' = AppendDocument(documents,
                               Document(SomeText, u, "html", md.value))
           /\ stack' = AfterDocument(u, d)
    /\ envUnchanged
    /\ UNCHANGED <<registryVars, metadataVars>>

\* lines 108-145 for a page whose text is empty: Document raises ValueError
\* after line 134 marked the page visited; lines 165-166 swallow it
CrawlFetchEmpty ==
    /\ PassesGuards
    /\ \/ page_text[Top.url] = "empty"
       \/ page_text[Top.url] = "unseen" /\ EmptyPagesKnown < MaxEmptyPages
    /\ LET u == Top.url
           d == Top.depth
       IN  /\ page_text' = [page_text EXCEPT ![u] = "empty"]
           /\ fetched' = Append(fetched, GetRequest(u, d, TRUE))
           /\ visited_urls' = MarkVisited(u)
           /\ DocumentRaises(NoText, u, "html")
           /\ stack' = Pop(stack)
    /\ UNCHANGED documents
    /\ envUnchanged
    /\ UNCHANGED <<registryVars, metadataVars>>

\* line 156: the loop is exhausted, _crawl_url returns
LoopDone ==
    /\ Looping
    /\ Top.idx >= Len(Top.links)
    /\ stack' = Pop(stack)
    /\ UNCHANGED <<visited_urls, documents, page_text, fetched>>
    /\ envUnchanged
    /\ UNCHANGED <<registryVars, metadataVars>>

\* line 158 raises ValueError; lines 165-166 swallow it, ending this call
LoopBadHref ==
    /\ Looping
    /\ Top.idx < Len(Top.links)
    /\ UrljoinRaises(Top.links[Top.idx + 1])
    /\ stack' = Pop(stack)
    /\ UNCHANGED <<visited_urls, documents, page_text, fetched>>
    /\ envUnchanged
    /\ UNCHANGED <<registryVars, metadataVars>>

\* a variant in which the for loop of line 156 does not move to the next link
StalledLoop(f) == f
\* line 156: the for loop moves on to the next element of the slice
AdvancedLoop(f) == [f EXCEPT !.idx = f.idx + 1]

\* lines 156-161: the next link is resolved and crawled at depth + 1
LoopRecurse ==
    /\ Looping
    /\ Top.idx < Len(Top.links)
    /\ ~UrljoinRaises(Top.links[Top.idx + 1])
    /\ LET f == Top
           absolute_url == urljoin(f.url, f.links[f.idx + 1])
       IN  stack' = Append(Append(Pop(stack), AdvancedLoop(f)),
                           EnterFrame(absolute_url, f.depth + 1))
    /\ UNCHANGED <<visited_urls, documents, page_text, fetched>>
    /\ envUnchanged
    /\ UNCHANGED <<registryVars, metadataVars>>

Next ==
    \/ LoadInvalid
    \/ LoadStart
    \/ LoadRaiseNoContent
    \/ LoadReturn
    \/ CrawlReturnDepth
    \/ CrawlReturnVisited
    \/ CrawlReturnDomain
    \/ CrawlFetchFail
    \/ CrawlFetchOk
    \/ CrawlFetchEmpty
    \/ LoopDone
    \/ LoopBadHref
    \/ LoopRecurse

Spec == Init /\ [][Next]_vars

\* the steps of a running load call
CrawlStep ==
    \/ LoadRaiseNoContent
    \/ LoadReturn
    \/ CrawlReturnDepth
    \/ CrawlReturnVisited
    \/ CrawlReturnDomain
    \/ CrawlFetchFail
    \/ CrawlFetchOk
    \/ CrawlFetchEmpty
    \/ LoopDone
    \/ LoopBadHref
    \/ LoopRecurse

\* A loader followed through its first two load calls: whether a call ends
\* is a question about one call, and the second call starts from whatever
\* the first one left behind in the loader.
EarlyLoadInvalid == loads < 2 /\ LoadInvalid
EarlyLoadStart == loads < 2 /\ LoadStart

NextFair ==
    \/ EarlyLoadInvalid
    \/ EarlyLoadStart
    \/ LoadRaiseNoContent
    \/ LoadReturn
    \/ CrawlReturnDepth
    \/ CrawlReturnVisited
    \/ CrawlReturnDomain
    \/ CrawlFetchFail
    \/ CrawlFetchOk
    \/ CrawlFetchEmpty
    \/ LoopDone
    \/ LoopBadHref
    \/ LoopRecurse

\* load runs in one thread that executes its next statement whenever it has
\* one, and every GET returns or raises within its timeout (line 108):
\* a running call is never suspended forever.  Callers need not call again.
SpecFair == Init /\ [][NextFair]_vars /\ WF_vars(CrawlStep)

(***************************************************************************)
(* get_loader / register_loader.  The crawl state stays as constructed.    *)
(***************************************************************************)
CrawlIdle ==
    /\ config = DefaultConfig
    /\ visited_urls = {}
    /\ documents = <<>>
    /\ base_domain = <<"", "">>
    /\ stack = <<>>
    /\ phase = "idle"
    /\ result = NoResult
    /\ loads = 0
    /\ start_url = NoUrl
    /\ site = "hub"
    /\ page_text = [u \in AllUrls |-> "unseen"]
    /\ fetched = <<>>
    /\ past_loads = <<>>

InitRegistry == CrawlIdle /\ RegistryIdle /\ MetadataIdle

LogCall(op, tag, cls) == Append(reg_log, [op |-> op, tag |-> tag, type |-> cls])

\* a variant that stores under the tag as given
RegisterKeyAsGiven(file_type) == file_type
\* the key under which register_loader stores (line 65)
RegisterKey(file_type) == lower(file_type)
\* the key get_loader looks up (line 34)
LookupKey(file_type) == lower(file_type)
\* loader_class(): a new object
NewInstance(cls) == [id |-> Len(instances) + 1, type |-> cls]

\* lines 34-41
GetLoaderUnsupported ==
    /\ Len(reg_log) < MaxRegistryOps
    /\ \E file_type \in TagInputs :
        /\ LookupKey(file_type) \notin KeySet(registry)
        /\ reg_result' = [kind |-> "ValueError_unsupported", type |-> NoType,
                          id |-> 0, tags |-> Keys(registry)]
        /\ reg_log' = LogCall("get", file_type, NoType)
    /\ UNCHANGED <<registry, instances>>
    /\ UNCHANGED <<crawlVars, metadataVars>>

\* lines 34-36, 43-44
GetLoader ==
    /\ Len(reg_log) < MaxRegistryOps
    /\ \E file_type \in TagInputs :
        /\ LookupKey(file_type) \in KeySet(registry)
        /\ LET obj == NewInstance(Lookup(registry, LookupKey(file_type)))
           IN  /\ instances' = Append(instances, obj)
               /\ reg_result' = [kind |-> "instance", type |-> obj.type,
                                 id |-> obj.id, tags |-> <<>>]
        /\ reg_log' = LogCall("get", file_type, NoType)
    /\ UNCHANGED registry
    /\ UNCHANGED <<crawlVars, metadataVars>>

\* lines 59-63
RegisterLoaderTypeError ==
    /\ Len(reg_log) < MaxRegistryOps
    /\ \E file_type \in TagInputs, loader_class \in ClassInputs :
        /\ ~issubclass(loader_class)
        /\ reg_result' = [kind |-> "TypeError", type |-> NoType,
                          id |-> 0, tags |-> <<>>]
        /\ reg_log' = LogCall("register", file_type, loader_class)
    /\ UNCHANGED <<registry, instances>>
    /\ UNCHANGED <<crawlVars, metadataVars>>

\* line 65
RegisterLoader ==
    /\ Len(reg_log) < MaxRegistryOps
    /\ \E file_type \in TagInputs, loader_class \in ClassInputs :
        /\ issubclass(loader_class)
        /\ registry' = DictSet(registry, RegisterKey(file_type), loader_class)
        /\ reg_result' = [kind |-> "registered", type |-> NoType,
                          id |-> 0, tags |-> <<>>]
        /\ reg_log' = LogCall("register", file_type, loader_class)
    /\ UNCHANGED instances
    /\ UNCHANGED <<crawlVars, metadataVars>>

NextRegistry ==
    \/ GetLoaderUnsupported
    \/ GetLoader
    \/ RegisterLoaderTypeError
    \/ RegisterLoader

SpecRegistry == InitRegistry /\ [][NextRegistry]_vars

(***************************************************************************)
(* extract_metadata as a function of its arguments: one call per behaviour.*)
(***************************************************************************)
MetadataKeys == {"source_path", "title", "depth"}
MetadataValues == {"x", "y"}
MetadataKwargs ==
    UNION {[K -> MetadataValues] :
              K \in {S \in SUBSET MetadataKeys : Cardinality(S) <= MaxExtraKeys}}
MetadataCalls ==
    [loader : {"PDFLoader", "HTMLLoader"}, source : {"u", "x"},
     kwargs : MetadataKwargs]

InitMetadata ==
    /\ CrawlIdle
    /\ RegistryIdle
    /\ md_call \in MetadataCalls
    /\ md_result = [raised |-> "pending", value |-> <<>>]

\* loader.extract_metadata(source, **kwargs)
CallExtractMetadata ==
    /\ md_result.raised = "pending"
    /\ md_call.loader # NoType
    /\ md_result' = IF md_call.loader = "HTMLLoader"
                    THEN HTMLLoader_extract_metadata(md_call.source, md_call.kwargs)
                    ELSE extract_metadata(md_call.source, md_call.kwargs)
    /\ UNCHANGED md_call
    /\ UNCHANGED <<crawlVars, registryVars>>

NextMetadata == CallExtractMetadata

SpecMetadata == InitMetadata /\ [][NextMetadata]_vars

(***************************************************************************)
(* Vocabulary of the crawl claims.                                         *)
(***************************************************************************)
DocUris(docs) == {docs[i].source_uri : i \in DOMAIN docs}
OkFetches == {i \in DOMAIN fetched : fetched[i].ok}
FailedUrls == {fetched[i].url : i \in {j \in DOMAIN fetched : ~fetched[j].ok}}
FetchedUrls == {fetched[i].url : i \in DOMAIN fetched}

\* a load call on an http(s) URL is in progress or was the last call made
InLoad == phase = "crawling" \/ (phase = "done" /\ HasHttpPrefix(start_url))
LoadEnded == phase = "done" /\ HasHttpPrefix(start_url)
Returned == LoadEnded /\ result.kind = "returned"

\* the GET request that produced the Document of u
FetchOf(u) == CHOOSE i \in OkFetches : fetched[i].url = u

IsPrefix(p, q) == Len(p) <= Len(q) /\ SubSeq(q, 1, Len(p)) = p

\* pre-order of call paths: a path precedes its extensions, and otherwise the
\* first differing link position decides
PreOrderLess(p, q) ==
    \/ Len(p) < Len(q) /\ IsPrefix(p, q)
    \/ \E k \in 1..Min(Len(p), Len(q)) :
          /\ SubSeq(p, 1, k - 1) = SubSeq(q, 1, k - 1)
          /\ p[k] < q[k]

C2_StaysInDomain ==
    (InLoad /\ config.stay_in_domain) =>
        /\ \A i \in DOMAIN fetched : DomainOf(fetched[i].url) = DomainOf(start_url)
        /\ \A i \in DOMAIN documents :
              DomainOf(documents[i].source_uri) = DomainOf(start_url)
        /\ \A i \in DOMAIN result.docs :
              DomainOf(result.docs[i].source_uri) = DomainOf(start_url)

\* a crawled page links to a page of another scheme://host that is within the
\* depth bound and not visited: only the domain check stands before its fetch
C2_Witness ==
    /\ config.stay_in_domain
    /\ Entering
    /\ Len(stack) > 1
    /\ stack[Len(stack) - 1].url \in DocUris(documents)
    /\ ~DepthExceeded(Top.depth)
    /\ ~AlreadyVisited(Top.url)
    /\ OutOfDomain(Top.url)

(***************************************************************************)
(* C3 (as claimed): no GET at a depth above max_depth, links followed only *)
(* from pages below max_depth, every Document's depth in 0..max_depth, and *)
(* with max_depth = 0 and a start page whose fetch succeeds, load returns  *)
(* exactly one Document.                                                   *)
(***************************************************************************)
StartFetched == \E i \in OkFetches : fetched[i].url = start_url

C3_DepthBoundAndSinglePage ==
    InLoad =>
        /\ \A i \in DOMAIN fetched : fetched[i].depth <= config.max_depth
        /\ \A k \in DOMAIN stack :
              stack[k].stage = "loop" => stack[k].depth < config.max_depth
        /\ \A i \in DOMAIN documents :
              documents[i].metadata["depth"] \in 0..config.max_depth
        /\ (LoadEnded /\ config.max_depth = 0 /\ StartFetched) =>
              /\ result.kind = "returned"
              /\ Len(result.docs) = 1

(***************************************************************************)
(* C4 (as claimed): only the first max_links_per_page links of a page are  *)
(* passed to the recursive crawl; with max_depth = 1, max_links_per_page = *)
(* 2 (links followed) and a start page of 5 distinct in-domain links whose *)
(* fetches all succeed, load returns exactly 3 Documents and the 3rd, 4th  *)
(* and 5th links are never fetched.                                        *)
(***************************************************************************)
StartLinks == find_all_links(site, start_url)
StartTargets == [k \in DOMAIN StartLinks |-> urljoin(start_url, StartLinks[k])]

FiveLinkStart ==
    /\ Len(StartLinks) = 5
    /\ \A k \in 1..5 :
          /\ ~UrljoinRaises(StartLinks[k])
          /\ DomainOf(StartTargets[k]) = DomainOf(start_url)
          /\ StartTargets[k] # start_url
    /\ \A k, l \in 1..5 : StartTargets[k] = StartTargets[l] => k = l

C4_LinkCap ==
    InLoad =>
        /\ \A k \in DOMAIN stack :
              stack[k].stage = "loop" =>
                 /\ stack[k].idx <= config.max_links_per_page
                 /\ IsPrefix(stack[k].links, find_all_links(site, stack[k].url))
                 /\ k < Len(stack) =>
                       stack[k + 1].url =
                           urljoin(stack[k].url,
                                   find_all_links(site, stack[k].url)[stack[k].idx])
        /\ (/\ LoadEnded
            /\ config.max_depth = 1
            /\ config.max_links_per_page = 2
            /\ config.follow_links
            /\ FiveLinkStart
            /\ StartFetched
            /\ FailedUrls = {}) =>
              /\ result.kind = "returned"
              /\ Len(result.docs) = 3
              /\ \A k \in 3..5 : StartTargets[k] \notin FetchedUrls

(***************************************************************************)
(* C5 (as claimed): when the fetch of a linked page fails and the start    *)
(* page is fetched, load returns, and the result holds a Document for      *)
(* every other page reachable from the start page within the depth,        *)
(* domain and links-per-page limits.  Stated for loads in which every      *)
(* fetched page has text, so that an empty page is not what refutes it.    *)
(***************************************************************************)
\* the link targets the crawl would follow from page u
FollowedTargets(u) ==
    LET ls == LinksToFollow(u)
    IN  {urljoin(u, ls[k]) : k \in {j \in DOMAIN ls :
                 \A m \in 1..j : ~UrljoinRaises(ls[m])}}

RECURSIVE ReachableWithin(_)
\* pages at most n links away from the start page, through pages that have a
\* Document (so were fetched) and links the limits let the crawl follow
ReachableWithin(n) ==
    IF n <= 0 \/ ~config.follow_links THEN {start_url}
    ELSE LET near == ReachableWithin(n - 1)
         IN  near \cup
             {v \in UNION {FollowedTargets(u) : u \in near \cap DocUris(documents)} :
                 ~OutOfDomain(v)}

C5_AllOtherReachablePages ==
    (/\ LoadEnded
     /\ StartFetched
     /\ FailedUrls # {}
     /\ start_url \notin FailedUrls
     /\ \A u \in AllUrls : page_text[u] # "empty") =>
        /\ result.kind = "returned"
        /\ \A u \in ReachableWithin(config.max_depth) :
              u \notin FailedUrls => u \in DocUris(result.docs)

(***************************************************************************)
(* C6: a load call on an http(s) URL never returns an empty sequence: it   *)
(* raises the "no content" ValueError exactly when no Document was         *)
(* accumulated, and otherwise returns the accumulated sequence.            *)
(***************************************************************************)
C6_NeverReturnsEmpty ==
    /\ result.kind = "returned" => result.docs # <<>>
    /\ LoadEnded =>
          /\ documents = <<>> => result.kind = "ValueError_no_content"
          /\ documents # <<>> =>
                /\ result.kind = "returned"
                /\ result.docs = documents
                /\ Len(result.docs) >= 1

\* a load with a negative max_depth ended: nothing was fetched, load raised
C6_Witness ==
    /\ LoadEnded
    /\ config.max_depth < 0
    /\ fetched = <<>>
    /\ result.kind = "ValueError_no_content"

(***************************************************************************)
(* C7: the Documents are in the order of their successful fetches, which   *)
(* is the pre-order of the crawl (a page before the pages reached through  *)
(* its links, the pages of link i before those of link i+1), and a crawl   *)
(* step only appends: what is in the sequence stays, in place.             *)
(***************************************************************************)
DocumentsInPreOrder ==
    InLoad =>
        \A i, j \in DOMAIN documents :
            i < j =>
              /\ FetchOf(documents[i].source_uri) < FetchOf(documents[j].source_uri)
              /\ PreOrderLess(fetched[FetchOf(documents[i].source_uri)].path,
                              fetched[FetchOf(documents[j].source_uri)].path)

AppendOnlyStep == phase = "crawling" => IsPrefix(documents, documents')

C7_PreOrder == []DocumentsInPreOrder /\ [][AppendOnlyStep]_vars

\* a Document fetched two links deep is followed by one fetched through a
\* later link of the start page
C7_Witness ==
    /\ Returned
    /\ \E i, j \in DOMAIN result.docs :
          /\ i < j
          /\ Len(fetched[FetchOf(result.docs[i].source_uri)].path) = 2
          /\ Len(fetched[FetchOf(result.docs[j].source_uri)].path) = 1

(***************************************************************************)
(* C10 (as claimed): during and after a load call the visited set is the   *)
(* set of source_uri values of the accumulated Documents, also when a      *)
(* fetched page has no text.                                               *)
(***************************************************************************)
C10_VisitedEqualsDocuments ==
    InLoad => visited_urls = DocUris(documents)

(***************************************************************************)
(* Vocabulary of the registry claim.                                       *)
(***************************************************************************)
\* the types that satisfy the AbstractDataLoader contract
SatisfiesContract(cls) == cls \in {"PDFLoader", "CSVLoader", "HTMLLoader", "WordLoader"}
AllTags == TagInputs \cup {lower(t) : t \in TagInputs} \cup KeySet(InitialRegistry)

\* the type the registry should map tag to after the first k calls: that of
\* the latest successful registration under it, else the built-in one
ExpectedType(tag, k) ==
    LET regs == {i \in 1..k : /\ reg_log[i].op = "register"
                              /\ SatisfiesContract(reg_log[i].type)
                              /\ lower(reg_log[i].tag) = tag}
    IN  IF regs # {}
        THEN reg_log[CHOOSE i \in regs : \A j \in regs : j <= i].type
        ELSE IF tag \in KeySet(InitialRegistry)
             THEN Lookup(InitialRegistry, tag)
             ELSE NoType
ExpectedTags(k) == {t \in AllTags : ExpectedType(t, k) # NoType}

MetadataCalled == md_result.raised # "pending"

OkUrls == {fetched[i].url : i \in OkFetches}

VisitedOnlyAfterSuccess == InLoad => visited_urls \subseteq OkUrls

\* a failed GET leaves visited as it was
FailedFetchStep ==
    (/\ phase = "crawling"
     /\ Len(fetched') = Len(fetched) + 1
     /\ ~fetched'[Len(fetched')].ok) => visited_urls' = visited_urls

\* the crawl stands at a URL that failed before and has not succeeded since
RetryPending ==
    /\ Entering
    /\ ~DepthExceeded(Top.depth)
    /\ ~OutOfDomain(Top.url)
    /\ Top.url \in FailedUrls
    /\ Top.url \notin OkUrls

RetryStep ==
    RetryPending =>
        /\ Len(fetched') = Len(fetched) + 1
        /\ fetched'[Len(fetched')].url = Top.url
        /\ fetched'[Len(fetched')].path = PathOf(stack)

C11_FailedFetchIsRetried ==
    /\ []VisitedOnlyAfterSuccess
    /\ [][FailedFetchStep /\ RetryStep]_vars

\* a URL whose GET failed was requested again through another link path, and
\* that second GET succeeded
C11_Witness ==
    /\ InLoad
    /\ \E i, j \in DOMAIN fetched :
          /\ i < j
          /\ fetched[i].url = fetched[j].url
          /\ ~fetched[i].ok
          /\ fetched[j].ok
          /\ fetched[i].path # fetched[j].path
          /\ fetched[j].url \in DocUris(documents)

(***************************************************************************)
(* C12: every load call on an http(s) URL starts its crawl with an empty   *)
(* visited set, whatever earlier calls on the same loader visited; a URL   *)
(* is skipped as visited only if a GET of it succeeded earlier in the same *)
(* call; and two calls on the same start URL in which every GET succeeds   *)
(* (the same pages are served) give the caller the same Documents.         *)
(***************************************************************************)
LoadBeginsStep == (phase # "crawling" /\ phase' = "crawling") => visited_urls' = {}

SkippedOnlyIfFetchedInThisLoad ==
    (Entering /\ ~DepthExceeded(Top.depth) /\ AlreadyVisited(Top.url)) =>
        Top.url \in {fetched[i].url : i \in {j \in DOMAIN fetched : fetched[j].ok}}

SameLoadSameDocuments ==
    \A i, j \in DOMAIN past_loads :
        past_loads[i].source = past_loads[j].source =>
            past_loads[i].result = past_loads[j].result

C12_NoLeakBetweenLoads ==
    /\ [](SkippedOnlyIfFetchedInThisLoad /\ SameLoadSameDocuments)
    /\ [][LoadBeginsStep]_vars

\* the same start URL was loaded twice on one loader without a failed GET,
\* the first call visited several pages, and the second returned Documents
C12_Witness ==
    /\ Len(past_loads) = 2
    /\ past_loads[1].source = past_loads[2].source
    /\ past_loads[2].result.kind = "returned"
    /\ Len(past_loads[1].result.docs) >= 3

(***************************************************************************)
(* C13: every load call that started crawling ends, by returning its       *)
(* Documents or by raising, on every site (cycles and self links           *)
(* included), whatever GETs fail and for every configuration.              *)
(***************************************************************************)
C13_LoadTerminates ==
    (phase = "crawling") ~> (LoadEnded /\ stack = <<>> /\ result # NoResult)

\* a load ended on the site whose pages link to themselves and to each other,
\* after following links two levels deep and after a GET failed
C13_Witness ==
    /\ LoadEnded
    /\ result # NoResult
    /\ site = "cycle"
    /\ {Home, PageA} \subseteq {fetched[i].url : i \in {j \in DOMAIN fetched : fetched[j].ok}}
    /\ \E i \in DOMAIN fetched : fetched[i].depth = 2
    /\ \E i \in DOMAIN fetched : ~fetched[i].ok

====
